---------------------------- MODULE Spec2Model ----------------------------
(***************************************************************************)
(* Model of the pump-curve tool of Problem 1/Pump_MVC.py: the Pump_Model   *)
(* data object, the Pump_Controller operations that import a pump file and *)
(* fit the head and efficiency curves, and the Pump_View that shows them.  *)
(*                                                                         *)
(* Text is modelled as sequences of one-character strings, so strip(),     *)
(* split() and float() are computed on the characters.  Floats are the     *)
(* values of the integer literals the input files use; fitted coefficients *)
(* are exact rationals <<numerator, denominator>>.                         *)
(*                                                                         *)
(* LeastSquaresFit_Class is imported from LeastSquares (Pump_MVC.py:6),    *)
(* a file of the repository that is not among the sources; its operations  *)
(* are modelled from the specification's PolynomialFitter.                 *)
(***************************************************************************)
EXTENDS Integers, Sequences, FiniteSets, TLC

VARIABLES
    Model,      \* the Pump_Model object held by the controller
    View,       \* the Pump_View object: its widget references
    Widgets,    \* the contents of the widgets the view can refer to
    policy,     \* the fitter's fixed policy on a singular system
    lastCall,   \* the last operation called on the controller, its argument
    err,        \* the exception that call raised, "none" when it returned
    trace,      \* the steps that call performed, in order
    nCalls      \* number of calls made so far

vars == <<Model, View, Widgets, policy, lastCall, err, trace, nCalls>>

-----------------------------------------------------------------------------
(* Bounds of the model. *)

MaxRows == 4

MaxCalls == 3

-----------------------------------------------------------------------------
(* Python str operations on character sequences. *)

Whitespace == {" ", "\t", "\n"}

Digits == {"0", "1", "2", "3", "4", "5", "6", "7", "8", "9"}

RECURSIVE LStrip(_)
LStrip(s) ==
    IF s # <<>> /\ Head(s) \in Whitespace THEN LStrip(Tail(s)) ELSE s

RECURSIVE RStrip(_)
RStrip(s) ==
    IF s # <<>> /\ s[Len(s)] \in Whitespace
    THEN RStrip(SubSeq(s, 1, Len(s) - 1))
    ELSE s

\* str.strip(): leading and trailing whitespace removed
Strip(s) == RStrip(LStrip(s))

\* str.split() without separator: the maximal runs of non-whitespace
RECURSIVE SplitFrom(_, _, _)
SplitFrom(s, cur, acc) ==
    IF s = <<>>
    THEN IF cur = <<>> THEN acc ELSE Append(acc, cur)
    ELSE IF Head(s) \in Whitespace
         THEN SplitFrom(Tail(s), <<>>, IF cur = <<>> THEN acc ELSE Append(acc, cur))
         ELSE SplitFrom(Tail(s), Append(cur, Head(s)), acc)

Split(s) == SplitFrom(s, <<>>, <<>>)

DigitValue(c) ==
    CASE c = "0" -> 0 [] c = "1" -> 1 [] c = "2" -> 2 [] c = "3" -> 3
      [] c = "4" -> 4 [] c = "5" -> 5 [] c = "6" -> 6 [] c = "7" -> 7
      [] c = "8" -> 8 [] c = "9" -> 9

RECURSIVE DigitsValue(_, _)
DigitsValue(s, acc) ==
    IF s = <<>> THEN acc ELSE DigitsValue(Tail(s), 10 * acc + DigitValue(Head(s)))

AllDigits(s) == s # <<>> /\ \A i \in 1..Len(s) : s[i] \in Digits

\* float(cell) succeeds; over the alphabet of the input files (digits, sign,
\* letters) the accepted literals are an optional sign followed by digits
IsFloat(cell) ==
    IF cell # <<>> /\ Head(cell) \in {"-", "+"}
    THEN AllDigits(Tail(cell))
    ELSE AllDigits(cell)

\* float(cell), for a cell float() accepts
FloatOf(cell) ==
    IF Head(cell) = "-" THEN 0 - DigitsValue(Tail(cell), 0)
    ELSE IF Head(cell) = "+" THEN DigitsValue(Tail(cell), 0)
    ELSE DigitsValue(cell, 0)

-----------------------------------------------------------------------------
(* Exact rational arithmetic for the fitter: <<n, d>> with d > 0, reduced. *)

Abs(n) == IF n < 0 THEN 0 - n ELSE n

RECURSIVE GCD(_, _)
GCD(a, b) == IF b = 0 THEN a ELSE GCD(b, a % b)

\* n / d for d # 0, reduced
Rat(n, d) ==
    IF n = 0 THEN <<0, 1>>
    ELSE IF d < 0 THEN <<(0 - n) \div GCD(Abs(n), Abs(d)), (0 - d) \div GCD(Abs(n), Abs(d))>>
    ELSE <<n \div GCD(Abs(n), d), d \div GCD(Abs(n), d)>>

RatInt(n) == <<n, 1>>

RatAdd(a, b) ==
    IF b[1] = 0 THEN a
    ELSE IF a[1] = 0 THEN b
    ELSE LET g == GCD(a[2], b[2])
         IN  Rat(a[1] * (b[2] \div g) + b[1] * (a[2] \div g), (a[2] \div g) * b[2])

RatNeg(a) == <<0 - a[1], a[2]>>

RatSub(a, b) == RatAdd(a, RatNeg(b))

RatMul(a, b) ==
    IF b[1] = 0 \/ a[1] = 0 THEN <<0, 1>>
    ELSE LET g1 == GCD(Abs(a[1]), b[2])
             g2 == GCD(Abs(b[1]), a[2])
         IN  Rat((a[1] \div g1) * (b[1] \div g2), (a[2] \div g2) * (b[2] \div g1))

\* a / b for b # 0
RatDiv(a, b) ==
    RatMul(a, IF b[1] < 0 THEN <<0 - b[2], 0 - b[1]>> ELSE <<b[2], b[1]>>)

RECURSIVE Pow(_, _)
Pow(b, e) == IF e = 0 THEN 1 ELSE b * Pow(b, e - 1)

RECURSIVE SumTo(_, _)
\* f[1] + ... + f[n] for a function f of integers
SumTo(f, n) == IF n = 0 THEN 0 ELSE f[n] + SumTo(f, n - 1)

RECURSIVE RatSumTo(_, _)
RatSumTo(f, n) == IF n = 0 THEN RatInt(0) ELSE RatAdd(f[n], RatSumTo(f, n - 1))

\* the matrix without row 1 and column j
Minor(A, j) ==
    [r \in 1..(Len(A) - 1) |->
        [c \in 1..(Len(A) - 1) |-> A[r + 1][IF c < j THEN c ELSE c + 1]]]

RECURSIVE Det(_)
\* determinant of a square integer matrix, by expansion along the first row
Det(A) ==
    IF Len(A) = 1 THEN A[1][1]
    ELSE SumTo([j \in 1..Len(A) |->
                   IF A[1][j] = 0 THEN 0
                   ELSE (IF j % 2 = 1 THEN 1 ELSE 0 - 1) * A[1][j] * Det(Minor(A, j))],
               Len(A))

-----------------------------------------------------------------------------
(* Fixed-precision rendering of a rational, as format(v, ".<k>f") gives.   *)

RECURSIVE PadZeros(_, _)
PadZeros(str, k) ==
    IF k <= 0 THEN str ELSE PadZeros("0" \o str, k - 1)

RECURSIVE NumDigits(_)
NumDigits(n) == IF n < 10 THEN 1 ELSE 1 + NumDigits(n \div 10)

\* r rounded half-up in magnitude to k decimals: sign, integer part, ".",
\* k digits
FormatFixed(r, k) ==
    LET scale == Pow(10, k)
        whole == Abs(r[1]) \div r[2]
        rem   == Abs(r[1]) % r[2]
        frac0 == (2 * rem * scale + r[2]) \div (2 * r[2])
        carry == IF frac0 >= scale THEN 1 ELSE 0
        frac  == IF carry = 1 THEN frac0 - scale ELSE frac0
        int   == whole + carry
        neg   == r[1] < 0 /\ (int > 0 \/ frac > 0)
    IN  (IF neg THEN "-" ELSE "") \o ToString(int) \o "."
            \o PadZeros(ToString(frac), k - NumDigits(frac))

-----------------------------------------------------------------------------
(* LeastSquaresFit_Class, the PolynomialFitter of the specification.       *)

\* decimals of a formatted coefficient
CoefDecimals == 4

NoCoeffs == [kind |-> "none", c |-> <<>>, arg |-> <<>>]

\* LeastSquaresFit_Class(): no samples, no coefficients
NewFitter == [x |-> <<>>, y |-> <<>>, coeffs |-> NoCoeffs]

\* V^T V of the Vandermonde matrix V: entry (i, j) is the sum of x^(i+j-2)
Gram(x, degree) ==
    [i \in 1..(degree + 1) |->
        [j \in 1..(degree + 1) |->
            SumTo([t \in 1..Len(x) |-> Pow(x[t], i + j - 2)], Len(x))]]

\* V^T y: entry i is the sum of x^(i-1) * y
Moments(x, y, degree) ==
    [i \in 1..(degree + 1) |->
        SumTo([t \in 1..Len(x) |-> Pow(x[t], i - 1) * y[t]], Len(x))]

ReplaceColumn(A, k, b) ==
    [i \in 1..Len(A) |-> [j \in 1..Len(A) |-> IF j = k THEN b[i] ELSE A[i][j]]]

\* fit(x, y, degree): the coefficients c0..cd, ascending powers, that solve the
\* normal equations (V^T V) c = V^T y; an error for empty or mismatched
\* samples; on a singular system the error or the least-norm solution,
\* by the policy pol.  The least-norm solution is kept as the term it is a
\* function of.
LeastSquaresFn(x, y, degree, pol) ==
    IF Len(x) # Len(y) \/ Len(x) = 0
    THEN [err |-> "InvalidInputError", coeffs |-> NoCoeffs]
    ELSE LET G == Gram(x, degree)
             b == Moments(x, y, degree)
             D == Det(G)
         IN  IF D = 0
             THEN IF pol = "raise"
                  THEN [err |-> "IllConditionedFitError", coeffs |-> NoCoeffs]
                  ELSE [err |-> "none",
                        coeffs |-> [kind |-> "leastnorm", c |-> <<>>,
                                    arg |-> <<x, y, degree>>]]
             ELSE [err |-> "none",
                   coeffs |-> [kind |-> "solved",
                               c |-> [k \in 1..(degree + 1) |->
                                         Rat(Det(ReplaceColumn(G, k, b)), D)],
                               arg |-> <<>>]]

\* fitter.LeastSquares(degree): fits the fitter's own x and y and keeps the
\* coefficients; on an error the fitter is left as it was
LeastSquares(F, degree, pol) ==
    LET r == LeastSquaresFn(F.x, F.y, degree, pol)
    IN  [err |-> r.err,
         F |-> IF r.err = "none" THEN [F EXCEPT !.coeffs = r.coeffs] ELSE F]

\* evaluate(model, x): c0 + c1 x + ... + cd x^d by Horner's method
RECURSIVE EvaluateFrom(_, _, _)
EvaluateFrom(c, k, x) ==
    IF k > Len(c) THEN RatInt(0)
    ELSE RatAdd(c[k], RatMul(RatInt(x), EvaluateFrom(c, k + 1, x)))

Evaluate(c, x) == EvaluateFrom(c, 1, x)

RatSquare(a) == RatMul(a, a)

\* coefficientOfDetermination(model, x, y) = 1 - SS_res / SS_tot; with zero
\* total variance 1 when the residual is zero too, else not a number
CoefficientOfDetermination(c, x, y) ==
    LET n     == Len(x)
        sumY  == SumTo([t \in 1..n |-> y[t]], n)
        mean  == Rat(sumY, n)
        ssRes == RatSumTo([t \in 1..n |->
                     RatSquare(RatSub(RatInt(y[t]), Evaluate(c, x[t])))], n)
        ssTot == RatSumTo([t \in 1..n |->
                     RatSquare(RatSub(RatInt(y[t]), mean))], n)
    IN  IF ssTot[1] = 0
        THEN IF ssRes[1] = 0
             THEN [kind |-> "value", v |-> RatInt(1), arg |-> <<>>]
             ELSE [kind |-> "nan", v |-> RatInt(0), arg |-> <<>>]
        ELSE [kind |-> "value", v |-> RatSub(RatInt(1), RatDiv(ssRes, ssTot)),
              arg |-> <<>>]

RECURSIVE JoinCoeffs(_, _)
JoinCoeffs(c, k) ==
    IF k > Len(c) THEN ""
    ELSE (IF k = 1 THEN "" ELSE ", ") \o FormatFixed(c[k], CoefDecimals)
             \o JoinCoeffs(c, k + 1)

\* fitter.GetCoeffsString(): the stored coefficients at fixed precision,
\* comma separated, constant term first
GetCoeffsString(F) ==
    IF F.coeffs.kind = "leastnorm"
    THEN [text |-> "leastnorm", arg |-> F.coeffs.arg]
    ELSE [text |-> JoinCoeffs(F.coeffs.c, 1), arg |-> <<>>]

SeqMin(s) == CHOOSE v \in {s[i] : i \in 1..Len(s)} : \A i \in 1..Len(s) : v <= s[i]

SeqMax(s) == CHOOSE v \in {s[i] : i \in 1..Len(s)} : \A i \in 1..Len(s) : v >= s[i]

\* the evaluation points of a plot: the unit grid from min(x) to max(x)
PlotGrid(x) == [i \in 1..(SeqMax(x) - SeqMin(x) + 1) |-> SeqMin(x) + i - 1]

NoPlotInfo == [x |-> <<>>, y |-> <<>>,
               RSq |-> [kind |-> "none", v |-> RatInt(0), arg |-> <<>>]]

\* fitter.GetPlotInfo(degree): the fitted curve over the range of the fitter's
\* x, and R^2 of the stored coefficients against the fitter's x and y
GetPlotInfo(F, degree) ==
    IF Len(F.x) = 0 \/ Len(F.x) # Len(F.y)
    THEN [err |-> "InvalidInputError", info |-> NoPlotInfo]
    ELSE IF F.coeffs.kind = "leastnorm"
    THEN [err |-> "none",
          info |-> [x |-> PlotGrid(F.x), y |-> <<>>,
                    RSq |-> [kind |-> "leastnorm", v |-> RatInt(0),
                             arg |-> <<F.coeffs.arg, F.x, F.y>>]]]
    ELSE [err |-> "none",
          info |-> [x |-> PlotGrid(F.x),
                    y |-> [i \in 1..Len(PlotGrid(F.x)) |->
                              Evaluate(F.coeffs.c, PlotGrid(F.x)[i])],
                    RSq |-> CoefficientOfDetermination(F.coeffs.c, F.x, F.y)]]

-----------------------------------------------------------------------------
(* Pump_Model and Pump_View as constructed.                                *)

\* Pump_Model.__init__
NewModel ==
    [PumpName  |-> <<>>,
     FlowUnits |-> <<>>,
     HeadUnits |-> <<>>,
     FlowData  |-> <<>>,
     HeadData  |-> <<>>,
     EffData   |-> <<>>,
     LSFitHead |-> NewFitter,
     LSFitEff  |-> NewFitter]

NoText == [text |-> "", arg |-> <<>>]

\* the line edits of one set of widgets, empty
NewLineEdits ==
    [LE_PumpName  |-> <<>>,
     LE_FlowUnits |-> <<>>,
     LE_HeadUnits |-> <<>>,
     LE_HeadCoefs |-> NoText,
     LE_EffCoefs  |-> NoText]

\* axes with nothing drawn, as after ax.clear()
ClearedPlot ==
    [headData |-> <<>>, headFit |-> <<>>, headLabel |-> NoText,
     effData  |-> <<>>, effFit  |-> <<>>, effLabel  |-> NoText,
     xlabel   |-> <<>>, ylabel  |-> <<>>, title     |-> <<>>,
     drawn    |-> FALSE]

\* Pump_View.__init__: placeholder line edits, no axes and no canvas
NewView == [widgets |-> "placeholder", ax |-> "None"]

NewWidgets ==
    [placeholder |-> NewLineEdits, app |-> NewLineEdits, plot |-> ClearedPlot]

-----------------------------------------------------------------------------
(* A call in progress: the model and widget contents so far, the exception *)
(* raised if any, and the steps performed.  A step of a call that has      *)
(* raised does nothing: the exception propagates to the caller.            *)

Ev(op, who, degree, nx, ny) ==
    [op |-> op, who |-> who, degree |-> degree, nx |-> nx, ny |-> ny]

Begin(M, W, pol) == [M |-> M, W |-> W, pol |-> pol, err |-> "none", trace |-> <<>>]

Raise(R, e) == [R EXCEPT !.err = e]

Log(R, ev) == [R EXCEPT !.trace = Append(@, ev)]

\* a prepend in place of the append
NpPrepend(a, v) == <<v>> \o a

\* np.append(array, value)
NpAppend(a, v) == Append(a, v)

\* the arrays left as they are
KeepArrays(M) == M

\* the fitters re-created along with the arrays
ClearArraysAndFitters(M) ==
    [M EXCEPT !.FlowData = <<>>, !.HeadData = <<>>, !.EffData = <<>>,
              !.LSFitHead = NewFitter, !.LSFitEff = NewFitter]

\* SetData, "clear existing arrays data"
ClearArrays(M) ==
    [M EXCEPT !.FlowData = <<>>, !.HeadData = <<>>, !.EffData = <<>>]

\* one pass of the loop of SetData over a row: split the line, convert and
\* append column by column; cells[k] of a short row raises IndexError,
\* float() of a cell that is no number raises ValueError
ParseRow(R, line) ==
    LET cells == Split(Strip(line))
        R0 == Log(R, Ev("row", "", 0, Len(R.M.FlowData), Len(R.M.HeadData)))
    IN  IF Len(cells) < 1 THEN Raise(R0, "IndexError")
        ELSE IF ~IsFloat(cells[1]) THEN Raise(R0, "ValueError")
        ELSE LET R1 == [R0 EXCEPT !.M.FlowData = NpAppend(@, FloatOf(cells[1]))]
        IN  IF Len(cells) < 2 THEN Raise(R1, "IndexError")
        ELSE IF ~IsFloat(cells[2]) THEN Raise(R1, "ValueError")
        ELSE LET R2 == [R1 EXCEPT !.M.HeadData = NpAppend(@, FloatOf(cells[2]))]
        IN  IF Len(cells) < 3 THEN Raise(R2, "IndexError")
        ELSE IF ~IsFloat(cells[3]) THEN Raise(R2, "ValueError")
        ELSE [R2 EXCEPT !.M.EffData = NpAppend(@, FloatOf(cells[3]))]

RECURSIVE ParseRows(_, _, _)
\* the loop of SetData from row i on
ParseRows(R, dataLines, i) ==
    IF R.err # "none" \/ i > Len(dataLines) THEN R
    ELSE ParseRows(ParseRow(R, dataLines[i]), dataLines, i + 1)

\* the head fitter given the efficiency column
HeadSamplesEffY(M) == [x |-> M.FlowData, y |-> M.EffData]

\* the efficiency fitter given the head column
EffSamplesHeadY(M) == [x |-> M.FlowData, y |-> M.HeadData]

\* the samples LSFit gives the head fitter and the efficiency fitter
HeadSamples(M) == [x |-> M.FlowData, y |-> M.HeadData]

EffSamples(M) == [x |-> M.FlowData, y |-> M.EffData]

\* Pump_Controller.LSFit: quadratic for head, then cubic for efficiency
LSFitRun(R) ==
    IF R.err # "none" THEN R
    ELSE
    LET H  == [R.M.LSFitHead EXCEPT !.x = HeadSamples(R.M).x,
                                    !.y = HeadSamples(R.M).y]
        rH == LeastSquares(H, 2, R.pol)
        R1 == Log([R EXCEPT !.M.LSFitHead = rH.F],
                  Ev("LeastSquares", "Head", 2, Len(H.x), Len(H.y)))
    IN  IF rH.err # "none" THEN Raise(R1, rH.err)
        ELSE
        LET E  == [R1.M.LSFitEff EXCEPT !.x = EffSamples(R1.M).x,
                                        !.y = EffSamples(R1.M).y]
            rE == LeastSquares(E, 3, R.pol)
            R2 == Log([R1 EXCEPT !.M.LSFitEff = rE.F],
                      Ev("LeastSquares", "Eff", 3, Len(E.x), Len(E.y)))
        IN  IF rE.err # "none" THEN Raise(R2, rE.err) ELSE R2

\* Pump_Controller.SetData: clear the arrays, parse the rows, fit
SetDataRun(R, dataLines) ==
    IF R.err # "none" THEN R
    ELSE LET parsed == ParseRows([R EXCEPT !.M = ClearArrays(@)], dataLines, 1)
             fitted == LSFitRun(parsed)
         IN  IF fitted.err = "none"
             THEN Log(fitted, Ev("SetData.return", "", 0,
                                 Len(fitted.M.FlowData), Len(fitted.M.HeadData)))
             ELSE fitted

-----------------------------------------------------------------------------
(* Pump_View.                                                              *)

\* f'{RSq:.3f}' in the legend label of a fitted curve
RSqLabel(RSq) ==
    IF RSq.kind = "value" THEN [text |-> FormatFixed(RSq.v, 3), arg |-> <<>>]
    ELSE [text |-> RSq.kind, arg |-> RSq.arg]

\* ax.plot(x, y) accepts only x and y of the same length
PlotRaises(x, y) == Len(x) # Len(y)

\* Pump_View.DoPlot: query both fitters, clear the axes, draw the data
\* markers and the fitted curves, set labels and title, redraw
DoPlotRun(R, V) ==
    IF R.err # "none" THEN R
    ELSE
    LET M  == R.M
        R1 == Log(R, Ev("GetPlotInfo", "Head", 2, Len(M.LSFitHead.x), Len(M.LSFitHead.y)))
        pH == GetPlotInfo(M.LSFitHead, 2)
    IN  IF pH.err # "none" THEN Raise(R1, pH.err)
        ELSE
        LET R2 == Log(R1, Ev("GetPlotInfo", "Eff", 3, Len(M.LSFitEff.x), Len(M.LSFitEff.y)))
            pE == GetPlotInfo(M.LSFitEff, 3)
        IN  IF pE.err # "none" THEN Raise(R2, pE.err)
            ELSE IF V.ax = "None" THEN Raise(R2, "AttributeError")
            ELSE
            LET R3 == [R2 EXCEPT !.W.plot = ClearedPlot]
            IN  IF PlotRaises(M.FlowData, M.HeadData) THEN Raise(R3, "ValueError")
                ELSE
                LET R4 == [R3 EXCEPT !.W.plot.headData = <<M.FlowData, M.HeadData>>,
                                     !.W.plot.headFit = <<pH.info.x, pH.info.y>>,
                                     !.W.plot.headLabel = RSqLabel(pH.info.RSq)]
                IN  IF PlotRaises(M.FlowData, M.EffData) THEN Raise(R4, "ValueError")
                    ELSE [R4 EXCEPT !.W.plot.effData = <<M.FlowData, M.EffData>>,
                                    !.W.plot.effFit = <<pE.info.x, pE.info.y>>,
                                    !.W.plot.effLabel = RSqLabel(pE.info.RSq),
                                    !.W.plot.xlabel = M.FlowUnits,
                                    !.W.plot.ylabel = M.HeadUnits,
                                    !.W.plot.title = M.PumpName,
                                    !.W.plot.drawn = TRUE]

\* Pump_View.updateView: push the model into the line edits the view refers
\* to, then plot
updateViewRun(R, V) ==
    IF R.err # "none" THEN R
    ELSE
    LET M  == R.M
        R1 == Log(Log(R, Ev("GetCoeffsString", "Head", 0, Len(M.LSFitHead.x), Len(M.LSFitHead.y))),
                  Ev("GetCoeffsString", "Eff", 0, Len(M.LSFitEff.x), Len(M.LSFitEff.y)))
        R2 == [R1 EXCEPT !.W[V.widgets] =
                  [LE_PumpName  |-> M.PumpName,
                   LE_FlowUnits |-> M.FlowUnits,
                   LE_HeadUnits |-> M.HeadUnits,
                   LE_HeadCoefs |-> GetCoeffsString(M.LSFitHead),
                   LE_EffCoefs  |-> GetCoeffsString(M.LSFitEff)]]
    IN  DoPlotRun(R2, V)

\* Pump_View.setViewWidgets: refer to the application's widgets
setViewWidgetsView(V) == [widgets |-> "app", ax |-> "axes"]

-----------------------------------------------------------------------------
(* Pump_Controller.ImportFromFile.                                         *)

\* name and units from data[0] and data[2]; an index out of range raises
\* IndexError with what was assigned before it kept
HeaderRun(R, data) ==
    IF R.err # "none" THEN R
    ELSE IF Len(data) < 1 THEN Raise(R, "IndexError")
    ELSE LET R1 == [R EXCEPT !.M.PumpName = Strip(data[1])]
    IN  IF Len(data) < 3 THEN Raise(R1, "IndexError")
    ELSE LET L == Split(data[3])
    IN  IF Len(L) < 1 THEN Raise(R1, "IndexError")
    ELSE LET R2 == [R1 EXCEPT !.M.FlowUnits = L[1]]
    IN  IF Len(L) < 2 THEN Raise(R2, "IndexError")
    ELSE [R2 EXCEPT !.M.HeadUnits = L[2]]

\* data[3:]
DataRows(data) == SubSeq(data, 4, Len(data))

\* the view updated before the data is set
ImportViewFirst(R, V, data) ==
    SetDataRun(updateViewRun(HeaderRun(R, data), V), DataRows(data))

ImportFromFileRun(R, V, data) ==
    updateViewRun(SetDataRun(HeaderRun(R, data), DataRows(data)), V)

-----------------------------------------------------------------------------
(* Input files.                                                            *)

NameA == <<"A", "\n">>
NameB == <<" ", "B", "2", " ", "\n">>
BlankLine == <<"\n">>
UnitsA == <<"g", "p", "m", " ", "f", "t", " ", "%", "\n">>
UnitsB == <<"L", "\t", "m", "\n">>
OneUnit == <<"g", "p", "m", "\n">>

\* flow, head = 9 - flow^2, efficiency = 3 flow^2 - flow^3
GoodTable ==
    << <<"0", " ", "9", " ", "0", "\n">>,
       <<"1", " ", "8", " ", "2", "\n">>,
       <<" ", "2", " ", " ", "5", "\t", "4", "\n">>,
       <<"3", " ", "0", " ", "0", "\n">>,
       <<"-", "1", " ", "+", "8", " ", "4", "\n">>,
       <<"-", "2", " ", "5", " ", "2", "0">> >>

\* rows off the curves, with a cell that is no number, with two cells, blank
NoisyRow == <<"3", " ", "1", " ", "1", "\n">>
NonNumericRow == <<"2", " ", "x", " ", "4", "\n">>
TwoCellRow == <<"3", " ", "0", "\n">>

FaultRows == {NoisyRow, NonNumericRow, TwoCellRow, BlankLine}

\* the most rows a table holds
TableRows == IF MaxRows < Len(GoodTable) THEN MaxRows ELSE Len(GoodTable)

\* the tables a file can hold: the first n rows of the good table, or the
\* longest of these with its last row replaced by a fault row
RowSets ==
    {SubSeq(GoodTable, 1, n) : n \in 0..TableRows}
      \cup {Append(SubSeq(GoodTable, 1, TableRows - 1), f) : f \in FaultRows}

HeaderA == <<NameA, BlankLine, UnitsA>>
HeaderB == <<NameB, BlankLine, UnitsB>>

\* the files imported: every table under the first header, the longest good
\* table under the second, and files whose header lines are missing or short
Files ==
    {HeaderA \o rows : rows \in RowSets}
      \cup {HeaderB \o SubSeq(GoodTable, 1, TableRows)}
      \cup {<<>>, <<NameB>>, <<NameB, BlankLine, BlankLine>>,
            <<NameB, BlankLine, OneUnit>>}

-----------------------------------------------------------------------------
(* The operations of the controller.                                       *)

Init ==
    /\ Model = NewModel
    /\ View = NewView
    /\ Widgets = NewWidgets
    /\ policy \in {"raise", "leastnorm"}
    /\ lastCall = [op |-> "__init__", arg |-> <<>>]
    /\ err = "none"
    /\ trace = <<>>
    /\ nCalls = 0

Finish(R, op, arg) ==
    /\ Model' = R.M
    /\ Widgets' = R.W
    /\ err' = R.err
    /\ trace' = R.trace
    /\ lastCall' = [op |-> op, arg |-> arg]

setViewWidgets ==
    /\ nCalls < MaxCalls
    /\ nCalls' = nCalls + 1
    /\ View' = setViewWidgetsView(View)
    /\ lastCall' = [op |-> "setViewWidgets", arg |-> <<>>]
    /\ err' = "none"
    /\ trace' = <<>>
    /\ UNCHANGED <<Model, Widgets, policy>>

ImportFromFile(data) ==
    /\ nCalls < MaxCalls
    /\ nCalls' = nCalls + 1
    /\ Finish(ImportFromFileRun(Begin(Model, Widgets, policy), View, data),
              "ImportFromFile", data)
    /\ UNCHANGED <<View, policy>>

SetData(dataLines) ==
    /\ nCalls < MaxCalls
    /\ nCalls' = nCalls + 1
    /\ Finish(SetDataRun(Begin(Model, Widgets, policy), dataLines),
              "SetData", dataLines)
    /\ UNCHANGED <<View, policy>>

LSFit ==
    /\ nCalls < MaxCalls
    /\ nCalls' = nCalls + 1
    /\ Finish(LSFitRun(Begin(Model, Widgets, policy)), "LSFit", <<>>)
    /\ UNCHANGED <<View, policy>>

updateView ==
    /\ nCalls < MaxCalls
    /\ nCalls' = nCalls + 1
    /\ Finish(updateViewRun(Begin(Model, Widgets, policy), View), "updateView", <<>>)
    /\ UNCHANGED <<View, policy>>

Next ==
    \/ setViewWidgets
    \/ \E data \in Files : ImportFromFile(data)
    \/ \E dataLines \in RowSets : SetData(dataLines)
    \/ LSFit
    \/ updateView

Spec == Init /\ [][Next]_vars

-----------------------------------------------------------------------------
(* Vocabulary of the properties.                                           *)

Idx == 1..Len(trace)

DataCall == lastCall.op \in {"ImportFromFile", "SetData"}

\* the rows the last call handed to SetData
RowsOf(call) == IF call.op = "ImportFromFile" THEN DataRows(call.arg) ELSE call.arg

FitAt(i, who) == trace[i].op = "LeastSquares" /\ trace[i].who = who

IsQuery(e) == e.op \in {"GetCoeffsString", "GetPlotInfo"}

\* the last call ran LSFit and the head fit returned: the efficiency fit
\* follows it in the trace
HeadFitDone == \E i \in Idx : FitAt(i, "Head") /\ i < Len(trace)

\* the last call ran LSFit and the efficiency fit returned
EffFitDone == \E i \in Idx : FitAt(i, "Eff") /\ (i < Len(trace) \/ err = "none")

SetDataReturned == \E i \in Idx : trace[i].op = "SetData.return"

\* a table SetData must reject: no rows, or a row without three numbers
InvalidRows(rows) ==
    \/ rows = <<>>
    \/ \E i \in 1..Len(rows) :
          \/ Len(Split(Strip(rows[i]))) < 3
          \/ \E k \in 1..3 : ~IsFloat(Split(Strip(rows[i]))[k])

\* cell k of row i as a number
Cell(rows, i, k) == FloatOf(Split(Strip(rows[i]))[k])

\* p[1] + p[2] x + ... for integer coefficients p
PolyAt(p, x) == SumTo([k \in 1..Len(p) |-> p[k] * Pow(x, k - 1)], Len(p))

OnPoly(x, y, p) ==
    Len(x) = Len(y) /\ \A i \in 1..Len(x) : y[i] = PolyAt(p, x[i])

DistinctValues(x) == Cardinality({x[i] : i \in 1..Len(x)})

Quadratics == {<<a, b, c>> : a \in 0..9, b \in -1..1, c \in -1..1}

Cubics == {<<a, b, c, d>> : a \in 0..1, b \in -1..1, c \in 0..3, d \in -1..1}

ExactFit(F, p, x, y) ==
    /\ F.coeffs.kind = "solved"
    /\ Len(F.coeffs.c) = Len(p)
    /\ \A k \in 1..Len(p) : F.coeffs.c[k] = RatInt(p[k])
    /\ CoefficientOfDetermination(F.coeffs.c, x, y).kind = "value"
    /\ CoefficientOfDetermination(F.coeffs.c, x, y).v = RatInt(1)

Curve(F, x) == [i \in 1..Len(PlotGrid(x)) |-> Evaluate(F.coeffs.c, PlotGrid(x)[i])]

-----------------------------------------------------------------------------
(* The properties.                                                         *)

\* C1: whenever ImportFromFile or SetData starts a fit, the fitter's x and y
\* have the same length N and N >= degree + 1.
C1_FitHasEnoughPoints ==
    DataCall =>
        \A i \in Idx : trace[i].op = "LeastSquares" =>
            /\ trace[i].nx = trace[i].ny
            /\ trace[i].nx >= trace[i].degree + 1

\* C2: when the rows given to ImportFromFile or SetData are empty, hold a cell
\* that is no number or a row without three columns, the call raises and no
\* LeastSquares call was made.
C2_InvalidInputFailsFast ==
    (DataCall /\ InvalidRows(RowsOf(lastCall))) =>
        /\ err # "none"
        /\ \A i \in Idx : trace[i].op # "LeastSquares"

\* C3: an ImportFromFile that aborts in header parsing, row parsing or a fit
\* leaves the model as it was before the call.
C3_FailedImportLeavesModel ==
    [][(/\ lastCall'.op = "ImportFromFile"
        /\ err' # "none"
        /\ \A i \in 1..Len(trace') : ~IsQuery(trace'[i]))
       => Model' = Model]_vars

\* C4: after ImportFromFile(data), running ImportFromFile(data) again leaves
\* the model (arrays, fitter samples and coefficients) and the outcome as
\* they are after the first run.
C4_ImportIdempotent ==
    lastCall.op = "ImportFromFile" =>
        /\ ImportFromFileRun(Begin(Model, Widgets, policy), View, lastCall.arg).M = Model
        /\ ImportFromFileRun(Begin(Model, Widgets, policy), View, lastCall.arg).err = err

C4_Witness ==
    /\ lastCall.op = "ImportFromFile"
    /\ nCalls >= 2
    /\ err = "none"
    /\ Len(Model.FlowData) = TableRows
    /\ Model.LSFitEff.coeffs.kind = "solved"

\* C5 as stated: the fitter is stateless, no fitter-owned samples or
\* coefficients persist between calls.
C5_FitterStateless ==
    /\ Model.LSFitHead = NewFitter
    /\ Model.LSFitEff = NewFitter

\* C5 amended: the fitter is stateful.  The samples LSFit assigns and the
\* coefficients LeastSquares computes are kept in the fitter objects and
\* persist across every call that starts no fit, and the coefficient strings
\* the view shows are read from that stored state.
C5_FitterStatePersists ==
    [][/\ (\A i \in 1..Len(trace') : trace'[i].op # "LeastSquares")
            => /\ Model'.LSFitHead = Model.LSFitHead
               /\ Model'.LSFitEff = Model.LSFitEff
       /\ (\E i \in 1..Len(trace') : trace'[i].op = "GetCoeffsString")
            => /\ Widgets'[View'.widgets].LE_HeadCoefs = GetCoeffsString(Model'.LSFitHead)
               /\ Widgets'[View'.widgets].LE_EffCoefs = GetCoeffsString(Model'.LSFitEff)]_vars

C5_Witness ==
    /\ lastCall.op = "updateView"
    /\ Model.LSFitHead.coeffs.kind = "solved"
    /\ Model.LSFitHead.x # <<>>
    /\ Widgets[View.widgets].LE_HeadCoefs = GetCoeffsString(Model.LSFitHead)
    /\ Widgets[View.widgets].LE_HeadCoefs # NoText

C7_RecoversPolynomial ==
    /\ \A p \in Quadratics :
          (/\ HeadFitDone
           /\ OnPoly(Model.FlowData, Model.HeadData, p)
           /\ DistinctValues(Model.FlowData) >= 3)
          => ExactFit(Model.LSFitHead, p, Model.FlowData, Model.HeadData)
    /\ \A p \in Cubics :
          (/\ EffFitDone
           /\ OnPoly(Model.FlowData, Model.EffData, p)
           /\ DistinctValues(Model.FlowData) >= 4)
          => ExactFit(Model.LSFitEff, p, Model.FlowData, Model.EffData)

C7_Witness ==
    /\ lastCall.op = "ImportFromFile"
    /\ err = "none"
    /\ HeadFitDone
    /\ EffFitDone
    /\ DistinctValues(Model.FlowData) >= 4
    /\ OnPoly(Model.FlowData, Model.HeadData, <<9, 0, -1>>)
    /\ OnPoly(Model.FlowData, Model.EffData, <<0, 0, 3, -1>>)

\* C8: once SetData has returned, the three arrays hold exactly the float
\* values of columns 1, 2 and 3 of the rows of this call, in row order, and
\* both fitters hold these arrays as x and y.
C8_ArraysAreColumns ==
    (DataCall /\ SetDataReturned) =>
        LET rows == RowsOf(lastCall)
        IN  /\ Len(Model.FlowData) = Len(rows)
            /\ Len(Model.HeadData) = Len(rows)
            /\ Len(Model.EffData) = Len(rows)
            /\ \A i \in 1..Len(rows) :
                  /\ Model.FlowData[i] = Cell(rows, i, 1)
                  /\ Model.HeadData[i] = Cell(rows, i, 2)
                  /\ Model.EffData[i] = Cell(rows, i, 3)
            /\ Model.LSFitHead.x = Model.FlowData
            /\ Model.LSFitHead.y = Model.HeadData
            /\ Model.LSFitEff.x = Model.FlowData
            /\ Model.LSFitEff.y = Model.EffData

C8_Witness ==
    /\ lastCall.op = "SetData"
    /\ SetDataReturned
    /\ Len(Model.FlowData) >= 3
    /\ Widgets.plot.drawn
    /\ Widgets.plot.headData[1] # Model.FlowData

C10_ArraysPaired ==
    /\ Len(Model.FlowData) = Len(Model.HeadData)
    /\ Len(Model.HeadData) = Len(Model.EffData)

=============================================================================
